---------------------------- MODULE Spec2Model ----------------------------
(***************************************************************************)
(* A model of the request-admission and result-caching core of the         *)
(* repository:                                                             *)
(*   - AsyncQueue  (utils/async-queue.utils.ts, src/unnamed/part_001)      *)
(*   - LRUCache    (src/src/utils/lru-cache.utils.ts)                      *)
(*   - RateLimiter (middleware/rate-limiter, src/unnamed/part_001)         *)
(*   - UserService (src/src/modules/users/users.service.ts)                *)
(* Every handler of the single-threaded event loop runs to its next await  *)
(* without interleaving, so each action below is one such run.             *)
(***************************************************************************)
EXTENDS Integers, Sequences, FiniteSets, TLC

(***************************************************************************)
(* Bounds of the model.                                                    *)
(***************************************************************************)
\* new AsyncQueue(concurrencyLimit): the constructor argument.
ConcurrencyLimit == 2
\* The number of enqueue calls made in one behaviour.
MaxCallers == 4

\* new LRUCache(capacity, ttlSeconds): the constructor arguments, the ttl in
\* ticks of the clock.
Capacity == 2
Ttl == 1
\* The clock stops here.
MaxTime == 2
\* The get calls counted between two resets of the stats.
MaxRequests == 2
\* The sets of a new key made at capacity in one behaviour.
MaxFullInserts == 1

\* The clock of the rate limiter advances this many times in one behaviour.
MaxTicks == 3
\* The requests of one client rejected at one instant.
MaxRejects == 2

\* The getUserById calls made in one behaviour.
MaxCalls == 3

\* The keys of the cache: opaque strings, the empty string among them.
CacheKeys == {"", "a", "b"}
CacheValues == {"v1", "v2"}
\* undefined, what get returns for a key it does not hold
Absent == "undefined"
\* no set of the key is in force
None == [t |-> -1, v |-> Absent]

\* The user ids: those of mockUsers, and the first one createUser gives out.
UserIds == {1, 2, 3, 4}
\* const cacheKey = `user:${userId}`
UserKey(u) == "user:" \o ToString(u)

\* The ids (keys) callers enqueue under: the cache keys of the user service.
QueueIds == {UserKey(u) : u \in UserIds}
\* What a fetchFn can settle with: a value (ok) or an error (~ok).
Outcomes ==
    {[ok |-> TRUE, val |-> "x"], [ok |-> TRUE, val |-> "y"], [ok |-> FALSE, val |-> "e"]}

VARIABLES
    queue,        \* AsyncQueue.queue: Map<string, QueueTask[]>, in insertion order
    processing,   \* AsyncQueue.processing: Set<string>
    activeCount,  \* AsyncQueue.activeCount
    running,      \* the processTask activations suspended at `await task()`
    callers,      \* the promises enqueue returned, in the order of the calls
    invoked,      \* history: the callers whose fetchFn was called
    gen,          \* history: per id, the number of fetches that settled
    cache,        \* LRUCache.cache: Map<string, CacheEntry>, in insertion order
    stats,        \* LRUCache.stats: hits, misses, evictions
    now,          \* Date.now()
    last,         \* the last cache operation: its name, key and return value
                  \* (of a set: whether the key was stored before it)
    recency,      \* history: the stored keys, by their last successful get or set
    live,         \* history: per key, the time and value of the set still in force
    fullInserts,  \* history: the sets of a new key made at capacity
    buckets,      \* RateLimiter.buckets: Map<string, TokenBucket>
    clock,        \* Date.now() as the rate limiter reads it, in ms
    ticks,        \* history: the number of times clock advanced
    rlLast,       \* the last rate limiter operation: its name, client and result
    inst,         \* history: per client, its requests of the latest instant
    win,          \* history: per client, an observed window of 60 s
    shadow,       \* the buckets of a second run of the rate limiter
    verdict,      \* history: the results of the latest request made in both runs
    userDatabase, \* UserService.userDatabase
    nextUserId,   \* UserService.nextUserId
    rechecked,    \* the fetchFn activations whose recheck of the cache found the user
    dbCalls,      \* history: per user id, the calls of simulateDatabaseCall
    disrupted,    \* history: the user ids whose cache entry was cleared, evicted or expired
    served,       \* history: the users getUserById returned from the cache, per id
    nCalls,       \* history: the number of getUserById calls
    svcLast       \* the last operation of the service: its name, user id and result

queueVars == <<queue, processing, activeCount, running, callers, invoked, gen>>

cacheVars == <<cache, stats, now, last, recency, live, fullInserts>>

limiterVars == <<buckets, clock, ticks, rlLast, inst, win, shadow, verdict>>

serviceVars ==
    <<userDatabase, nextUserId, rechecked, dbCalls, disrupted, served, nCalls, svcLast>>

vars == <<queueVars, cacheVars, limiterVars, serviceVars>>

\* What the steps of one component leave alone.
notQueue == <<cacheVars, limiterVars, serviceVars>>

notCache == <<queueVars, limiterVars, serviceVars>>

notLimiter == <<queueVars, cacheVars, serviceVars>>

(***************************************************************************)
(* AsyncQueue                                                              *)
(***************************************************************************)

\* this.queue.get(id) || []
QueueGet(q, id) ==
    LET hit == SelectSeq(q, LAMBDA e : e.id = id)
    IN  IF hit = <<>> THEN <<>> ELSE hit[1].tasks

\* existingQueue.push(task); this.queue.set(id, existingQueue): a key the Map
\* holds keeps its place, a new key goes last.
QueuePush(q, id, c) ==
    IF \E i \in 1..Len(q) : q[i].id = id
    THEN [i \in 1..Len(q) |->
            IF q[i].id = id THEN [q[i] EXCEPT !.tasks = Append(@, c)] ELSE q[i]]
    ELSE Append(q, [id |-> id, tasks |-> <<c>>])

QueueDeleteNothing(q, id) == q

\* this.queue.delete(id)
QueueDelete(q, id) == SelectSeq(q, LAMBDA e : e.id # id)

IsProcessingNever(id) == FALSE

\* this.processing.has(id)
IsProcessing(id) == id \in processing

HasFreeSlotAlways(n) == TRUE

\* activeCount < concurrencyLimit, of enqueue; its negation is processNext's
\* early return.
HasFreeSlot(n) == n < ConcurrencyLimit

\* resolve(result) / reject(error) of caller c: a promise settles once.
\* pos records the place of c among the handles settled by the same completion.
SettleOne(cs, c, o, p) ==
    IF cs[c].state = "pending"
    THEN [cs EXCEPT ![c].state = IF o.ok THEN "resolved" ELSE "rejected",
                    ![c].val = o.val,
                    ![c].pos = p]
    ELSE cs

RECURSIVE SettleAll(_, _, _, _)
RECURSIVE SettleAllReversed(_, _, _, _)

SettleFirstOnly(cs, tasks, o, p) ==
    IF tasks = <<>> THEN cs ELSE SettleOne(cs, Head(tasks), o, p)

SettleAllReversed(cs, tasks, o, p) ==
    IF tasks = <<>> THEN cs
    ELSE SettleAllReversed(SettleOne(cs, tasks[Len(tasks)], o, p),
                           SubSeq(tasks, 1, Len(tasks) - 1), o, p + 1)

\* waitingTasks.forEach(t => t.resolve(result)) / t.reject(error), in array order
SettleAll(cs, tasks, o, p) ==
    IF tasks = <<>> THEN cs
    ELSE SettleAll(SettleOne(cs, Head(tasks), o, p), Tail(tasks), o, p + 1)

\* The index of the first Map entry processNext would start, 0 when none.
NextEligible(q, proc) ==
    LET ok == {i \in 1..Len(q) : q[i].id \notin proc /\ q[i].tasks # <<>>}
    IN  IF ok = {} THEN 0 ELSE CHOOSE i \in ok : \A j \in ok : i <= j

\* processNext(), from the state [q, proc, n, run, inv] processTask's finally
\* block left: the state after it.
ProcessNext(s) ==
    IF ~HasFreeSlot(s.n) THEN s
    ELSE LET i == NextEligible(s.q, s.proc)
         IN  IF i = 0 THEN s
             ELSE LET id   == s.q[i].id
                      task == Head(s.q[i].tasks)
                      rest == Tail(s.q[i].tasks)
                  IN  [q    |-> IF rest = <<>> THEN QueueDelete(s.q, id)
                                ELSE [s.q EXCEPT ![i].tasks = rest],
                       proc |-> s.proc \cup {id},
                       n    |-> s.n + 1,
                       run  |-> s.run \cup {[id |-> id, task |-> task]},
                       inv  |-> s.inv \cup {task}]

\* enqueue(id, task): the Promise executor.
Enqueue(id) ==
    /\ Len(callers) < MaxCallers
    /\ LET c == Len(callers) + 1
       IN  /\ callers' = Append(callers,
                  [id |-> id, state |-> "pending", val |-> "none", pos |-> 0,
                   epoch |-> gen[id],
                   sawFree |-> activeCount < ConcurrencyLimit])
           /\ IF IsProcessing(id)
              THEN /\ queue' = QueuePush(queue, id, c)
                   /\ UNCHANGED <<processing, activeCount, running, invoked>>
              ELSE /\ processing' = processing \cup {id}
                   /\ IF HasFreeSlot(activeCount)
                      THEN /\ activeCount' = activeCount + 1
                           /\ running' = running \cup {[id |-> id, task |-> c]}
                           /\ invoked' = invoked \cup {c}
                           /\ UNCHANGED queue
                      ELSE /\ queue' = QueuePush(queue, id, c)
                           /\ UNCHANGED <<activeCount, running, invoked>>
    /\ UNCHANGED gen

\* processTask from `await task()` on: task() settled with o; resolve/reject the
\* caller, then the waiters of the id, then the finally block and processNext.
Complete(r, o) ==
    /\ r \in running
    /\ LET waiting == QueueGet(queue, r.id)
           s == ProcessNext([q    |-> IF waiting # <<>> THEN QueueDelete(queue, r.id)
                                      ELSE queue,
                             proc |-> processing \ {r.id},
                             n    |-> activeCount - 1,
                             run  |-> running \ {r},
                             inv  |-> invoked])
       IN  /\ callers' = SettleAll(SettleOne(callers, r.task, o, 1), waiting, o, 2)
           /\ queue' = s.q
           /\ processing' = s.proc
           /\ activeCount' = s.n
           /\ running' = s.run
           /\ invoked' = s.inv
    /\ gen' = [gen EXCEPT ![r.id] = @ + 1]

\* clear()
QueueClear ==
    /\ queue' = <<>>
    /\ UNCHANGED <<processing, activeCount, running, callers, invoked, gen>>

\* getStats() of the queue
QueueGetStats ==
    LET RECURSIVE Total(_)
        Total(q) == IF q = <<>> THEN 0 ELSE Len(Head(q).tasks) + Total(Tail(q))
    IN  [queueSize       |-> Total(queue),
         processingCount |-> Cardinality(processing),
         activeCount     |-> activeCount]

(***************************************************************************)
(* LRUCache                                                                *)
(***************************************************************************)

\* JavaScript's truthiness of a string: only the empty string is falsy.
Truthy(k) == k # ""

\* Array.from(this.cache.keys()), as a set
KeysOf(c) == {c[i].key : i \in 1..Len(c)}

\* this.cache.has(key)
MapHas(c, k) == k \in KeysOf(c)

\* this.cache.get(key), of a key the Map holds
MapGet(c, k) == c[CHOOSE i \in 1..Len(c) : c[i].key = k]

\* this.cache.delete(key)
MapDelete(c, k) == SelectSeq(c, LAMBDA e : e.key # k)

\* this.cache.set(key, entry): a key the Map holds keeps its place, a new key
\* goes last.
MapSet(c, e) ==
    IF MapHas(c, e.key)
    THEN [i \in 1..Len(c) |-> IF c[i].key = e.key THEN e ELSE c[i]]
    ELSE Append(c, e)

IsExpiredAtTtl(e, t) == t - e.timestamp >= Ttl

IsExpiredSinceAccess(e, t) == t - e.lastAccessed > Ttl

\* isExpired(entry)
IsExpired(e, t) == t - e.timestamp > Ttl

IsStaleAtTtl(e, t) == t - e.timestamp >= Ttl

\* now - entry.timestamp > this.ttl, the test of cleanupStaleEntries
IsStale(e, t) == t - e.timestamp > Ttl

AtCapacityEarly(c) == Len(c) >= Capacity - 1

\* this.cache.size >= this.capacity
AtCapacity(c) == Len(c) >= Capacity

\* The history of accesses after an operation on key k that left the Map as c:
\* the keys no longer stored are dropped, and k goes last when the operation was
\* a successful get or a set.
Touched(rec, c, k, success) ==
    LET kept == SelectSeq(rec, LAMBDA x : x \in KeysOf(c) /\ ~(success /\ x = k))
    IN  IF success /\ k \in KeysOf(c) THEN Append(kept, k) ELSE kept

GetInPlace(k) ==
    /\ stats.hits + stats.misses < MaxRequests
    /\ IF ~MapHas(cache, k)
       THEN /\ stats' = [stats EXCEPT !.misses = @ + 1]
            /\ last' = [op |-> "get", key |-> k, ret |-> Absent]
            /\ UNCHANGED <<cache, recency>>
       ELSE LET entry == MapGet(cache, k)
            IN  IF IsExpired(entry, now)
                THEN /\ cache' = MapDelete(cache, k)
                     /\ stats' = [stats EXCEPT !.misses = @ + 1]
                     /\ last' = [op |-> "get", key |-> k, ret |-> Absent]
                     /\ recency' = Touched(recency, cache', k, FALSE)
                ELSE /\ cache' = MapSet(cache, [entry EXCEPT !.lastAccessed = now])
                     /\ stats' = [stats EXCEPT !.hits = @ + 1]
                     /\ last' = [op |-> "get", key |-> k, ret |-> entry.value]
                     /\ recency' = Touched(recency, cache', k, TRUE)
    /\ UNCHANGED <<now, live, fullInserts>>

GetSilentOnExpiry(k) ==
    /\ stats.hits + stats.misses < MaxRequests
    /\ IF ~MapHas(cache, k)
       THEN /\ stats' = [stats EXCEPT !.misses = @ + 1]
            /\ last' = [op |-> "get", key |-> k, ret |-> Absent]
            /\ UNCHANGED <<cache, recency>>
       ELSE LET entry == MapGet(cache, k)
            IN  IF IsExpired(entry, now)
                THEN /\ cache' = MapDelete(cache, k)
                     /\ stats' = stats
                     /\ last' = [op |-> "get", key |-> k, ret |-> Absent]
                     /\ recency' = Touched(recency, cache', k, FALSE)
                ELSE /\ cache' = MapSet(MapDelete(cache, k),
                                        [entry EXCEPT !.lastAccessed = now])
                     /\ stats' = [stats EXCEPT !.hits = @ + 1]
                     /\ last' = [op |-> "get", key |-> k, ret |-> entry.value]
                     /\ recency' = Touched(recency, cache', k, TRUE)
    /\ UNCHANGED <<now, live, fullInserts>>

\* get(key)
Get(k) ==
    /\ stats.hits + stats.misses < MaxRequests
    /\ IF ~MapHas(cache, k)
       THEN /\ stats' = [stats EXCEPT !.misses = @ + 1]
            /\ last' = [op |-> "get", key |-> k, ret |-> Absent]
            /\ UNCHANGED <<cache, recency>>
       ELSE LET entry == MapGet(cache, k)
            IN  IF IsExpired(entry, now)
                THEN /\ cache' = MapDelete(cache, k)
                     /\ stats' = [stats EXCEPT !.misses = @ + 1]
                     /\ last' = [op |-> "get", key |-> k, ret |-> Absent]
                     /\ recency' = Touched(recency, cache', k, FALSE)
                ELSE /\ cache' = MapSet(MapDelete(cache, k),
                                        [entry EXCEPT !.lastAccessed = now])
                     /\ stats' = [stats EXCEPT !.hits = @ + 1]
                     /\ last' = [op |-> "get", key |-> k, ret |-> entry.value]
                     /\ recency' = Touched(recency, cache', k, TRUE)
    /\ UNCHANGED <<now, live, fullInserts>>

SetInPlace(k, v) ==
    /\ (~MapHas(cache, k) /\ Len(cache) >= Capacity) => fullInserts < MaxFullInserts
    /\ LET entry == [key |-> k, value |-> v, timestamp |-> now, lastAccessed |-> now]
           firstKey == cache[1].key
           evict == ~MapHas(cache, k) /\ AtCapacity(cache)
                    /\ cache # <<>> /\ Truthy(firstKey)
           kept  == IF evict THEN MapDelete(cache, firstKey) ELSE cache
       IN  /\ cache' = MapSet(kept, entry)
           /\ stats' = IF evict THEN [stats EXCEPT !.evictions = @ + 1] ELSE stats
    /\ last' = [op |-> "set", key |-> k, ret |-> Absent, had |-> MapHas(cache, k)]
    /\ recency' = Touched(recency, cache', k, TRUE)
    /\ live' = [x \in CacheKeys |->
                  IF x = k THEN [t |-> now, v |-> v]
                  ELSE IF x \in KeysOf(cache) \ KeysOf(cache') THEN None
                  ELSE live[x]]
    /\ fullInserts' = IF ~MapHas(cache, k) /\ Len(cache) >= Capacity
                      THEN fullInserts + 1 ELSE fullInserts
    /\ UNCHANGED now

\* set(key, value)
Set(k, v) ==
    /\ (~MapHas(cache, k) /\ Len(cache) >= Capacity) => fullInserts < MaxFullInserts
    /\ LET entry == [key |-> k, value |-> v, timestamp |-> now, lastAccessed |-> now]
           firstKey == cache[1].key
           evict == ~MapHas(cache, k) /\ AtCapacity(cache)
                    /\ cache # <<>> /\ Truthy(firstKey)
           kept  == IF MapHas(cache, k) THEN MapDelete(cache, k)
                    ELSE IF evict THEN MapDelete(cache, firstKey)
                    ELSE cache
       IN  /\ cache' = MapSet(kept, entry)
           /\ stats' = IF evict THEN [stats EXCEPT !.evictions = @ + 1] ELSE stats
    /\ last' = [op |-> "set", key |-> k, ret |-> Absent, had |-> MapHas(cache, k)]
    /\ recency' = Touched(recency, cache', k, TRUE)
    /\ live' = [x \in CacheKeys |->
                  IF x = k THEN [t |-> now, v |-> v]
                  ELSE IF x \in KeysOf(cache) \ KeysOf(cache') THEN None
                  ELSE live[x]]
    /\ fullInserts' = IF ~MapHas(cache, k) /\ Len(cache) >= Capacity
                      THEN fullInserts + 1 ELSE fullInserts
    /\ UNCHANGED now

HasTouching(k) ==
    /\ IF ~MapHas(cache, k)
       THEN /\ last' = [op |-> "has", key |-> k, ret |-> FALSE]
            /\ UNCHANGED <<cache, recency>>
       ELSE IF IsExpired(MapGet(cache, k), now)
            THEN /\ cache' = MapDelete(cache, k)
                 /\ last' = [op |-> "has", key |-> k, ret |-> FALSE]
                 /\ recency' = Touched(recency, cache', k, FALSE)
            ELSE /\ cache' = MapSet(MapDelete(cache, k), MapGet(cache, k))
                 /\ last' = [op |-> "has", key |-> k, ret |-> TRUE]
                 /\ recency' = Touched(recency, cache', k, TRUE)
    /\ UNCHANGED <<stats, now, live, fullInserts>>

\* has(key)
Has(k) ==
    /\ IF ~MapHas(cache, k)
       THEN /\ last' = [op |-> "has", key |-> k, ret |-> FALSE]
            /\ UNCHANGED <<cache, recency>>
       ELSE IF IsExpired(MapGet(cache, k), now)
            THEN /\ cache' = MapDelete(cache, k)
                 /\ last' = [op |-> "has", key |-> k, ret |-> FALSE]
                 /\ recency' = Touched(recency, cache', k, FALSE)
            ELSE /\ last' = [op |-> "has", key |-> k, ret |-> TRUE]
                 /\ UNCHANGED <<cache, recency>>
    /\ UNCHANGED <<stats, now, live, fullInserts>>

ClearResetting ==
    /\ cache' = <<>>
    /\ stats' = [hits |-> 0, misses |-> 0, evictions |-> 0]
    /\ last' = [op |-> "clear", key |-> "", ret |-> Absent]
    /\ recency' = <<>>
    /\ live' = [x \in CacheKeys |-> None]
    /\ UNCHANGED <<now, fullInserts>>

\* clear()
Clear ==
    /\ cache' = <<>>
    /\ last' = [op |-> "clear", key |-> "", ret |-> Absent]
    /\ recency' = <<>>
    /\ live' = [x \in CacheKeys |-> None]
    /\ UNCHANGED <<stats, now, fullInserts>>

\* resetStats()
ResetStats ==
    /\ stats' = [hits |-> 0, misses |-> 0, evictions |-> 0]
    /\ last' = [op |-> "resetStats", key |-> "", ret |-> Absent]
    /\ UNCHANGED <<cache, now, recency, live, fullInserts>>

CleanupCountingEvictions ==
    /\ cache' = SelectSeq(cache, LAMBDA e : ~IsStale(e, now))
    /\ stats' = [stats EXCEPT !.evictions = @ + (Len(cache) - Len(cache'))]
    /\ last' = [op |-> "sweep", key |-> "", ret |-> Len(cache) - Len(cache')]
    /\ recency' = Touched(recency, cache', "", FALSE)
    /\ UNCHANGED <<now, live, fullInserts>>

\* cleanupStaleEntries(), the callback of the timer startCleanupTask sets; ret is
\* keysToDelete.length, the number it logs
CleanupStaleEntries ==
    /\ cache' = SelectSeq(cache, LAMBDA e : ~IsStale(e, now))
    /\ last' = [op |-> "sweep", key |-> "", ret |-> Len(cache) - Len(cache')]
    /\ recency' = Touched(recency, cache', "", FALSE)
    /\ UNCHANGED <<stats, now, live, fullInserts>>

\* Math.round(x) of the fraction n / d >= 0: the nearest integer, a half goes up.
Round(n, d) == (2 * n + d) \div (2 * d)

\* getStats(). hitRate is a number of two decimals, Math.round(hitRate * 100) / 100:
\* it is held here in hundredths of a percent.
GetStats ==
    LET totalRequests == stats.hits + stats.misses
    IN  [hits          |-> stats.hits,
         misses        |-> stats.misses,
         currentSize   |-> Len(cache),
         totalRequests |-> totalRequests,
         hitRate       |-> IF totalRequests > 0
                           THEN Round(stats.hits * 100 * 100, totalRequests)
                           ELSE 0,
         evictions     |-> stats.evictions]

\* The clock advances.
Tick ==
    /\ now < MaxTime
    /\ now' = now + 1
    /\ last' = [op |-> "tick", key |-> "", ret |-> Absent]
    /\ UNCHANGED <<cache, stats, recency, live, fullInserts>>

(***************************************************************************)
(* RateLimiter                                                             *)
(* bucket.tokens is a double. It is held here as a count of units of       *)
(* 1 / MsPerToken token, so that timeSinceRefill * refillRate is           *)
(* timeSinceRefill units, together with the sign dev of the rounding error *)
(* the double carries (its size, some 1e-15, is far below one unit).       *)
(***************************************************************************)
\* The clients, by the string getClientId returns.
Clients == {"A", "B"}
\* The client the properties of one client are stated for.
Subject == "A"
\* this.maxTokens
MaxTokens == 10
\* 1 / this.refillRate, the milliseconds one token takes
MsPerToken == (60 * 1000) \div 10
\* this.burstCapacity
BurstCapacity == 5
\* this.burstWindow
BurstWindow == 10 * 1000
\* the timeout of cleanup
CleanupTimeout == 5 * 60 * 1000
\* maxTokens, in units
FullTokens == MaxTokens * MsPerToken
\* The amounts, in ms, the clock advances by.
Steps == {6 * 1000, 10 * 1000, 60 * 1000, 5 * 60 * 1000}

\* The amounts the clock advances by where two runs are compared: whole tokens,
\* and long enough for cleanup to remove a bucket.
CoarseSteps == {6 * 1000, 5 * 60 * 1000}

Min(a, b) == IF a < b THEN a ELSE b

\* this.buckets.get(clientId) of a client the map does not hold
NoBucket ==
    [tokens |-> -1, dev |-> 0, lastRefill |-> -1, burstTokens |-> -1,
     lastBurstRefill |-> -1]

GetBucketShared(bs, c, t) ==
    LET x == CHOOSE y \in Clients : y # Subject
    IN  IF bs[x] = NoBucket
        THEN [tokens |-> FullTokens, dev |-> 0, lastRefill |-> t,
              burstTokens |-> BurstCapacity, lastBurstRefill |-> t]
        ELSE bs[x]

\* getBucket(clientId), at time t
GetBucket(bs, c, t) ==
    IF bs[c] = NoBucket
    THEN [tokens |-> FullTokens, dev |-> 0, lastRefill |-> t,
          burstTokens |-> BurstCapacity, lastBurstRefill |-> t]
    ELSE bs[c]

\* The signs the rounding error of
\*   Math.min(maxTokens, tokens + timeSinceRefill * refillRate)
\* can have. Adding 0 changes nothing; a sum above maxTokens, or a refill of
\* 60 s or more (60000 * refillRate is 10 exactly), gives maxTokens exactly; whole
\* tokens added to whole tokens are exact; min hides an excess over maxTokens.
Roundings(b, t) ==
    LET e == t - b.lastRefill
    IN  IF e = 0 THEN {b.dev}
        ELSE IF b.tokens + e > FullTokens \/ e >= FullTokens THEN {0}
        ELSE IF b.dev = 0 /\ b.tokens % MsPerToken = 0 /\ e % MsPerToken = 0 THEN {0}
        ELSE IF b.tokens + e = FullTokens THEN {-1, 0}
        ELSE {-1, 0, 1}

RefillNothing(b, t, d) == [b EXCEPT !.lastRefill = t]

RefillUncapped(b, t, d) ==
    [b EXCEPT !.tokens = @ + (t - b.lastRefill), !.dev = d, !.lastRefill = t]

\* refillTokens(bucket), at time t, the sum rounded towards d
RefillTokens(b, t, d) ==
    [b EXCEPT !.tokens = Min(FullTokens, @ + (t - b.lastRefill)),
              !.dev = d,
              !.lastRefill = t]

BurstDueLate(b, t) == t - b.lastBurstRefill > BurstWindow

\* timeSinceBurstRefill >= this.burstWindow
BurstDue(b, t) == t - b.lastBurstRefill >= BurstWindow

\* refillBurstTokens(bucket), at time t
RefillBurstTokens(b, t) ==
    IF BurstDue(b, t)
    THEN [b EXCEPT !.burstTokens = BurstCapacity, !.lastBurstRefill = t]
    ELSE b

\* bucket.tokens >= 1
HasToken(b) == b.tokens > MsPerToken \/ (b.tokens = MsPerToken /\ b.dev >= 0)

TakeBurstOnly(b) == [b EXCEPT !.burstTokens = @ - 1]

TakeBurstUnclamped(b) ==
    [b EXCEPT !.burstTokens = @ - 1, !.tokens = @ - MsPerToken]

\* bucket.burstTokens -= 1; bucket.tokens = Math.max(0, bucket.tokens - 1)
\* (the difference of a double in [1, 10] and 1 is exact)
TakeBurst(b) ==
    [b EXCEPT !.burstTokens = @ - 1,
              !.tokens = IF @ > MsPerToken THEN @ - MsPerToken ELSE 0,
              !.dev = IF b.tokens > MsPerToken THEN @
                      ELSE IF b.tokens = MsPerToken /\ @ = 1 THEN 1
                      ELSE 0]

\* bucket.tokens -= 1
TakeToken(b) == [b EXCEPT !.tokens = @ - MsPerToken]

\* allowRequest(clientId) at time t: the map afterwards, the result, and the pool
\* the request was served from.
AllowRequest(bs, c, t, d) ==
    LET b == RefillBurstTokens(RefillTokens(GetBucket(bs, c, t), t, d), t)
    IN  IF b.burstTokens > 0
        THEN [buckets |-> [bs EXCEPT ![c] = TakeBurst(b)], ret |-> TRUE, pool |-> "burst"]
        ELSE IF HasToken(b)
        THEN [buckets |-> [bs EXCEPT ![c] = TakeToken(b)], ret |-> TRUE, pool |-> "steady"]
        ELSE [buckets |-> [bs EXCEPT ![c] = b], ret |-> FALSE, pool |-> "none"]

CleanupEager(bs, t) ==
    [c \in Clients |->
        IF bs[c] # NoBucket /\ t - bs[c].lastRefill > 0 THEN NoBucket ELSE bs[c]]

\* cleanup() at time t, the callback of the constructor's setInterval
Cleanup(bs, t) ==
    [c \in Clients |->
        IF bs[c] # NoBucket /\ t - bs[c].lastRefill > CleanupTimeout
        THEN NoBucket ELSE bs[c]]

\* Math.floor(bucket.tokens)
Remaining(b) ==
    IF b.dev = -1 /\ b.tokens % MsPerToken = 0
    THEN (b.tokens \div MsPerToken) - 1
    ELSE b.tokens \div MsPerToken

\* What the rounding of (maxTokens - tokens) / refillRate can add to its ceiling:
\* nothing when tokens is a whole number held exactly; 1 when tokens is the
\* double just below maxTokens, the quotient being positive and below 1.
ResetInExcess(b) ==
    IF b.dev = 0 /\ b.tokens % MsPerToken = 0 THEN {0}
    ELSE IF b.tokens = FullTokens THEN {1}
    ELSE {0, 1}

GetStatusNextToken(bs, c, t, d, up) ==
    LET b == RefillBurstTokens(RefillTokens(GetBucket(bs, c, t), t, d), t)
    IN  [buckets |-> [bs EXCEPT ![c] = b],
         ret |-> [remaining |-> Remaining(b),
                  burstRemaining |-> b.burstTokens,
                  resetIn |-> IF HasToken(b) THEN 0
                              ELSE (MsPerToken - b.tokens) + up]]

\* getStatus(req) at time t: the map afterwards and the status returned.
GetStatus(bs, c, t, d, up) ==
    LET b == RefillBurstTokens(RefillTokens(GetBucket(bs, c, t), t, d), t)
    IN  [buckets |-> [bs EXCEPT ![c] = b],
         ret |-> [remaining |-> Remaining(b),
                  burstRemaining |-> b.burstTokens,
                  resetIn |-> (FullTokens - b.tokens) + up]]

\* The pools client c's requests of the present instant were served from.
Current(c) == IF inst[c].t = clock THEN inst[c].dec ELSE <<>>

Rejections(c) == Len(SelectSeq(Current(c), LAMBDA p : p = "none"))

\* The requests the README's burst test fires at once.
Fired == 12

\* The steady window the header comment and the README state the limit for.
SteadyWindow == 60 * 1000

\* The first request of an instant records what it found: no bucket (fresh), a
\* bucket full after the refill (full), a bucket left below one token and not
\* touched for a steady window (idle), or the instant of a fresh client's Fired
\* requests one burst window ago (after).
Found(c, b) ==
    LET pre == buckets[c]
    IN  [t     |-> clock,
         fresh |-> pre = NoBucket,
         full  |-> b.tokens = FullTokens /\ b.dev = 0 /\ b.burstTokens = BurstCapacity,
         idle  |-> /\ pre # NoBucket
                   /\ ~HasToken(pre)
                   /\ clock - pre.lastRefill >= SteadyWindow,
         after |-> /\ inst[c].fresh
                   /\ Len(inst[c].dec) = Fired
                   /\ pre # NoBucket
                   /\ pre.lastRefill = inst[c].t
                   /\ clock = inst[c].t + BurstWindow,
         dec   |-> <<>>]

\* The observed window of c after an admission: a new one begins when there is
\* none or when the old one is over.
Observed(c) ==
    IF win[c].start = -1 \/ clock - win[c].start >= SteadyWindow
    THEN [start |-> clock, count |-> 1]
    ELSE [win[c] EXCEPT !.count = @ + 1]

\* middleware(): one request of client c
Middleware(c) ==
    /\ Rejections(c) < MaxRejects
    /\ \E d \in Roundings(GetBucket(buckets, c, clock), clock) :
         LET r == AllowRequest(buckets, c, clock, d)
             b == RefillBurstTokens(
                      RefillTokens(GetBucket(buckets, c, clock), clock, d), clock)
             found == IF inst[c].t = clock THEN inst[c] ELSE Found(c, b)
         IN  /\ buckets' = r.buckets
             /\ rlLast' = [op |-> "request", client |-> c,
                           ret |-> IF r.ret THEN 200 ELSE 429]
             /\ inst' = [inst EXCEPT ![c] = [found EXCEPT !.dec = Append(@, r.pool)]]
             /\ win' = IF r.ret THEN [win EXCEPT ![c] = Observed(c)] ELSE win
    /\ UNCHANGED <<clock, ticks, shadow, verdict>>

\* getStatus(req) for client c
Status(c) ==
    /\ \E d \in Roundings(GetBucket(buckets, c, clock), clock) :
         LET b == RefillBurstTokens(
                      RefillTokens(GetBucket(buckets, c, clock), clock, d), clock)
         IN  \E up \in ResetInExcess(b) :
               LET r == GetStatus(buckets, c, clock, d, up)
               IN  /\ buckets' = r.buckets
                   /\ rlLast' = [op |-> "status", client |-> c, ret |-> r.ret]
    /\ UNCHANGED <<clock, ticks, inst, win, shadow, verdict>>

\* One firing of the cleanup timer.
CleanupPass ==
    /\ buckets' = Cleanup(buckets, clock)
    /\ rlLast' = [op |-> "cleanup", client |-> "", ret |-> 0]
    /\ UNCHANGED <<clock, ticks, inst, win, shadow, verdict>>

\* Time passes.
Advance(d) ==
    /\ ticks < MaxTicks
    /\ clock' = clock + d
    /\ ticks' = ticks + 1
    /\ rlLast' = [op |-> "advance", client |-> "", ret |-> d]
    /\ UNCHANGED <<buckets, inst, win, shadow, verdict>>

\* The same request of client c in both runs. Equal buckets are equal doubles, so
\* their refills round alike.
RequestBoth(c) ==
    /\ \E d1 \in Roundings(GetBucket(buckets, c, clock), clock) :
       \E d2 \in Roundings(GetBucket(shadow, c, clock), clock) :
         LET r1 == AllowRequest(buckets, c, clock, d1)
             r2 == AllowRequest(shadow, c, clock, d2)
         IN  /\ (GetBucket(buckets, c, clock) = GetBucket(shadow, c, clock)) => d1 = d2
             /\ buckets' = r1.buckets
             /\ shadow' = r2.buckets
             /\ verdict' = [main |-> r1.ret, shadow |-> r2.ret]
             /\ rlLast' = [op |-> "request", client |-> c,
                           ret |-> IF r1.ret THEN 200 ELSE 429]
    /\ UNCHANGED <<clock, ticks, inst, win>>

\* A request of client c in the first run only.
RequestMain(c) ==
    /\ \E d \in Roundings(GetBucket(buckets, c, clock), clock) :
         LET r == AllowRequest(buckets, c, clock, d)
         IN  /\ buckets' = r.buckets
             /\ rlLast' = [op |-> "other", client |-> c,
                           ret |-> IF r.ret THEN 200 ELSE 429]
    /\ UNCHANGED <<clock, ticks, inst, win, shadow, verdict>>

\* The cleanup timer of the second run fires.
CleanupShadow ==
    /\ shadow' = Cleanup(shadow, clock)
    /\ rlLast' = [op |-> "cleanup", client |-> "shadow", ret |-> 0]
    /\ UNCHANGED <<buckets, clock, ticks, inst, win, verdict>>

InitLimiter ==
    /\ buckets = [c \in Clients |-> NoBucket]
    /\ clock = 0
    /\ ticks = 0
    /\ rlLast = [op |-> "new", client |-> "", ret |-> 0]
    /\ inst = [c \in Clients |->
                 [t |-> -1, fresh |-> FALSE, full |-> FALSE, idle |-> FALSE,
                  after |-> FALSE, dec |-> <<>>]]
    /\ win = [c \in Clients |-> [start |-> -1, count |-> 0]]
    /\ shadow = [c \in Clients |-> NoBucket]
    /\ verdict = [main |-> TRUE, shadow |-> TRUE]

(***************************************************************************)
(* UserService (src/src/modules/users/users.service.ts), over the cache    *)
(* and the queue above. A User is held as the string that names it, null   *)
(* as NoUser. performanceMetrics, which no decision reads, is left out.    *)
(***************************************************************************)
\* null
NoUser == "null"

\* mockUsers
MockUsers == [u \in UserIds |-> CASE u = 1 -> "John Doe"
                                  [] u = 2 -> "Jane Smith"
                                  [] u = 3 -> "Alice Johnson"
                                  [] OTHER -> NoUser]

\* The ids getUserById is called with: two of the mockUsers, and the id that
\* does not exist until createUser gives it out.
Asked == {1, 2, 4}

\* input.name of createUser
Names == {"Bob", "Eve"}

\* The userId of a cache key.
KeyUser(k) == CHOOSE u \in UserIds : UserKey(u) = k

IsUserNever(v) == FALSE

\* if (fetchedUser), if (cachedUser), if (recheck): an object is truthy, null
\* and undefined are not
IsUser(v) == v # NoUser /\ v # Absent

\* this.cache.get(key) at time t: the map and the stats afterwards, and the value
\* returned
CacheGet(c, st, k, t) ==
    IF ~MapHas(c, k)
    THEN [cache |-> c, stats |-> [st EXCEPT !.misses = @ + 1], ret |-> Absent]
    ELSE LET entry == MapGet(c, k)
         IN  IF IsExpired(entry, t)
             THEN [cache |-> MapDelete(c, k),
                   stats |-> [st EXCEPT !.misses = @ + 1],
                   ret   |-> Absent]
             ELSE [cache |-> MapSet(MapDelete(c, k), [entry EXCEPT !.lastAccessed = t]),
                   stats |-> [st EXCEPT !.hits = @ + 1],
                   ret   |-> entry.value]

\* this.cache.set(key, value) at time t: the map and the stats afterwards
CacheSet(c, st, k, v, t) ==
    LET entry == [key |-> k, value |-> v, timestamp |-> t, lastAccessed |-> t]
        evict == ~MapHas(c, k) /\ AtCapacity(c) /\ c # <<>> /\ Truthy(c[1].key)
        kept  == IF MapHas(c, k) THEN MapDelete(c, k)
                 ELSE IF evict THEN MapDelete(c, c[1].key)
                 ELSE c
    IN  [cache |-> MapSet(kept, entry),
         stats |-> IF evict THEN [st EXCEPT !.evictions = @ + 1] ELSE st]

\* The users whose cache entry the step removes.
Removed == {u \in UserIds : UserKey(u) \in KeysOf(cache) \ KeysOf(cache')}

\* The start of the fetchFn of getUserById for key k, with the cache c and the
\* stats st: the recheck of the cache and, on a miss, the call of
\* simulateDatabaseCall, which is left waiting for its timer.
StartFetch(c, st, k, task, rc) ==
    LET g == CacheGet(c, st, k, now)
    IN  /\ cache' = g.cache
        /\ stats' = g.stats
        /\ rechecked' = IF IsUser(g.ret)
                        THEN rc \cup {[task |-> task, val |-> g.ret]} ELSE rc
        /\ dbCalls' = IF IsUser(g.ret) THEN dbCalls
                      ELSE [dbCalls EXCEPT ![KeyUser(k)] = @ + 1]

\* getUserById(userId), up to its return or its await of enqueue
GetUserById(u) ==
    /\ nCalls < MaxCalls
    /\ nCalls' = nCalls + 1
    /\ LET k == UserKey(u)
           g == CacheGet(cache, stats, k, now)
       IN  IF IsUser(g.ret)
           THEN /\ cache' = g.cache
                /\ stats' = g.stats
                /\ served' = served \cup {<<u, g.ret>>}
                /\ svcLast' = [op |-> "get", id |-> u, ret |-> g.ret]
                /\ UNCHANGED <<queueVars, rechecked, dbCalls>>
           ELSE /\ Enqueue(k)
                /\ IF ~IsProcessing(k) /\ HasFreeSlot(activeCount)
                   THEN StartFetch(g.cache, g.stats, k, Len(callers) + 1, rechecked)
                   ELSE /\ cache' = g.cache
                        /\ stats' = g.stats
                        /\ UNCHANGED <<rechecked, dbCalls>>
                /\ svcLast' = [op |-> "get", id |-> u, ret |-> Absent]
                /\ UNCHANGED served
    /\ disrupted' = disrupted \cup Removed
    /\ UNCHANGED <<now, userDatabase, nextUserId>>

\* The fetchFn of r returned val, with the cache c and the stats st: processTask
\* goes on, and the fetchFn of the task processNext starts, if any, begins.
Finish(r, val, c, st) ==
    /\ Complete(r, [ok |-> TRUE, val |-> val])
    /\ LET started == running' \ running
           rc == {x \in rechecked : x.task # r.task}
       IN  IF started = {}
           THEN /\ cache' = c
                /\ stats' = st
                /\ rechecked' = rc
                /\ UNCHANGED dbCalls
           ELSE LET t == CHOOSE x \in started : TRUE
                IN  StartFetch(c, st, t.id, t.task, rc)
    /\ disrupted' = disrupted \cup Removed
    /\ svcLast' = [op |-> "return", id |-> KeyUser(r.id), ret |-> val]
    /\ UNCHANGED <<now, userDatabase, nextUserId, served, nCalls>>

FetchReturnsCachingNull(r) ==
    /\ r \in running
    /\ IF \E x \in rechecked : x.task = r.task
       THEN LET x == CHOOSE y \in rechecked : y.task = r.task
            IN  Finish(r, x.val, cache, stats)
       ELSE LET fetchedUser == userDatabase[KeyUser(r.id)]
                s == CacheSet(cache, stats, r.id, fetchedUser, now)
            IN  Finish(r, fetchedUser, s.cache, s.stats)

\* The fetchFn of r ends. If its recheck found the user in the cache, it returned
\* it at once; else the timer of simulateDatabaseCall fires: the fetchFn reads
\* the database, caches a user it found, and returns.
FetchReturns(r) ==
    /\ r \in running
    /\ IF \E x \in rechecked : x.task = r.task
       THEN LET x == CHOOSE y \in rechecked : y.task = r.task
            IN  Finish(r, x.val, cache, stats)
       ELSE LET fetchedUser == userDatabase[KeyUser(r.id)]
                s == IF IsUser(fetchedUser)
                     THEN CacheSet(cache, stats, r.id, fetchedUser, now)
                     ELSE [cache |-> cache, stats |-> stats]
            IN  Finish(r, fetchedUser, s.cache, s.stats)

CreateUserUncached(name) ==
    /\ nextUserId \in UserIds
    /\ nextUserId' = nextUserId + 1
    /\ userDatabase' = [userDatabase EXCEPT ![nextUserId] = name]
    /\ svcLast' = [op |-> "create", id |-> nextUserId, ret |-> name]
    /\ disrupted' = disrupted \ {nextUserId}
    /\ UNCHANGED <<queueVars, cache, stats, now, rechecked, dbCalls, served, nCalls>>

\* createUser(input)
CreateUser(name) ==
    /\ nextUserId \in UserIds
    /\ LET s == CacheSet(cache, stats, UserKey(nextUserId), name, now)
       IN  /\ cache' = s.cache
           /\ stats' = s.stats
    /\ nextUserId' = nextUserId + 1
    /\ userDatabase' = [userDatabase EXCEPT ![nextUserId] = name]
    /\ svcLast' = [op |-> "create", id |-> nextUserId, ret |-> name]
    /\ disrupted' = (disrupted \cup Removed) \ {nextUserId}
    /\ UNCHANGED <<queueVars, now, rechecked, dbCalls, served, nCalls>>

\* clearCache()
ClearCache ==
    /\ cache' = <<>>
    /\ svcLast' = [op |-> "clear", id |-> 0, ret |-> Absent]
    /\ disrupted' = UserIds
    /\ UNCHANGED <<queueVars, stats, now, userDatabase, nextUserId, rechecked, dbCalls,
                   served, nCalls>>

\* The cleanup task of the service's cache runs.
ServiceSweep ==
    /\ cache' = SelectSeq(cache, LAMBDA e : ~IsStale(e, now))
    /\ svcLast' = [op |-> "sweep", id |-> 0, ret |-> Absent]
    /\ disrupted' = disrupted \cup Removed
    /\ UNCHANGED <<queueVars, stats, now, userDatabase, nextUserId, rechecked, dbCalls,
                   served, nCalls>>

\* The clock of the service advances.
ServiceTick ==
    /\ now < MaxTime
    /\ now' = now + 1
    /\ svcLast' = [op |-> "tick", id |-> 0, ret |-> Absent]
    /\ UNCHANGED <<queueVars, cache, stats, userDatabase, nextUserId, rechecked, dbCalls,
                   disrupted, served, nCalls>>

InitService ==
    /\ userDatabase = MockUsers
    /\ nextUserId = 4
    /\ rechecked = {}
    /\ dbCalls = [u \in UserIds |-> 0]
    /\ disrupted = {}
    /\ served = {}
    /\ nCalls = 0
    /\ svcLast = [op |-> "new", id |-> 0, ret |-> Absent]

InitCache ==
    /\ cache = <<>>
    /\ stats = [hits |-> 0, misses |-> 0, evictions |-> 0]
    /\ now = 0
    /\ last = [op |-> "new", key |-> "", ret |-> Absent]
    /\ recency = <<>>
    /\ live = [x \in CacheKeys |-> None]
    /\ fullInserts = 0

InitQueue ==
    /\ queue = <<>>
    /\ processing = {}
    /\ activeCount = 0
    /\ running = {}
    /\ callers = <<>>
    /\ invoked = {}
    /\ gen = [k \in QueueIds |-> 0]

Init == InitQueue /\ InitCache /\ InitLimiter /\ InitService

EnqueueStep == (\E id \in QueueIds : Enqueue(id)) /\ UNCHANGED notQueue

CompleteStep ==
    (\E r \in running : \E o \in Outcomes : Complete(r, o)) /\ UNCHANGED notQueue

QueueClearStep == QueueClear /\ UNCHANGED notQueue

NextQueue == EnqueueStep \/ CompleteStep

NextQueueAll == EnqueueStep \/ CompleteStep \/ QueueClearStep

GetStep == (\E k \in CacheKeys : Get(k)) /\ UNCHANGED notCache

SetStep == (\E k \in CacheKeys : \E v \in CacheValues : Set(k, v)) /\ UNCHANGED notCache

HasStep == (\E k \in CacheKeys : Has(k)) /\ UNCHANGED notCache

ClearStep == Clear /\ UNCHANGED notCache

ResetStatsStep == ResetStats /\ UNCHANGED notCache

SweepStep == CleanupStaleEntries /\ UNCHANGED notCache

TickStep == Tick /\ UNCHANGED notCache

NextCache ==
    GetStep \/ SetStep \/ HasStep \/ ClearStep \/ ResetStatsStep \/ SweepStep \/ TickStep

\* the operations of the cache, its timer and the clock
SpecCache == Init /\ [][NextCache]_vars

\* enqueue calls and fetch completions
SpecQueue == Init /\ [][NextQueue]_vars

\* every public operation of the queue
SpecQueueAll == Init /\ [][NextQueueAll]_vars

\* every fetchFn that was started settles
FairSpecQueue == SpecQueue /\ WF_vars(CompleteStep)

RequestStep == Middleware(Subject) /\ UNCHANGED notLimiter

StatusStep == Status(Subject) /\ UNCHANGED notLimiter

CleanupStep == CleanupPass /\ UNCHANGED notLimiter

AdvanceStep == (\E d \in Steps : Advance(d)) /\ UNCHANGED notLimiter

NextLimiter == RequestStep \/ StatusStep \/ CleanupStep \/ AdvanceStep

RequestBothStep == RequestBoth(Subject) /\ UNCHANGED notLimiter

RequestOtherStep ==
    (\E c \in Clients \ {Subject} : RequestMain(c)) /\ UNCHANGED notLimiter

AdvanceCoarseStep ==
    (\E d \in CoarseSteps : Advance(d)) /\ UNCHANGED notLimiter

CleanupShadowStep == CleanupShadow /\ UNCHANGED notLimiter

\* Two runs: in both the requests of Subject at the same times; in the first also
\* requests of the other clients.
NextIsolation ==
    RequestBothStep \/ RequestOtherStep \/ CleanupStep \/ CleanupShadowStep
        \/ AdvanceCoarseStep

\* Two runs: in both the requests of Subject at the same times; in the first also
\* status queries of Subject.
NextStatus ==
    RequestBothStep \/ StatusStep \/ CleanupStep \/ CleanupShadowStep \/ AdvanceStep

\* Two runs: in both the requests of Subject at the same times; in the first also
\* cleanup passes, in the second none.
NextCleanup == RequestBothStep \/ CleanupStep \/ AdvanceStep

\* The rate limiter serving one client.
SpecLimiter == Init /\ [][NextLimiter]_vars

SpecIsolation == Init /\ [][NextIsolation]_vars

SpecStatus == Init /\ [][NextStatus]_vars

SpecCleanup == Init /\ [][NextCleanup]_vars

\* The variables of the cache the service does not use.
cacheGhosts == <<last, recency, live, fullInserts>>

GetUserStep == (\E u \in Asked : GetUserById(u)) /\ UNCHANGED <<cacheGhosts, limiterVars>>

FetchReturnsStep ==
    (\E r \in running : FetchReturns(r)) /\ UNCHANGED <<cacheGhosts, limiterVars>>

CreateUserStep == (\E n \in Names : CreateUser(n)) /\ UNCHANGED <<cacheGhosts, limiterVars>>

ClearCacheStep == ClearCache /\ UNCHANGED <<cacheGhosts, limiterVars>>

ServiceSweepStep == ServiceSweep /\ UNCHANGED <<cacheGhosts, limiterVars>>

ServiceTickStep == ServiceTick /\ UNCHANGED <<cacheGhosts, limiterVars>>

NextService ==
    GetUserStep \/ FetchReturnsStep \/ CreateUserStep \/ ClearCacheStep
        \/ ServiceSweepStep \/ ServiceTickStep

\* The user service over its cache and the queue.
SpecService == Init /\ [][NextService]_vars

(***************************************************************************)
(* Properties of the queue                                                 *)
(***************************************************************************)

Callers == 1..Len(callers)

Settled(c) == callers[c].state # "pending"

\* The callers of id k that arrived after g fetches for k had settled and before
\* the next one settled.
Group(k, g) == {c \in Callers : callers[c].id = k /\ callers[c].epoch = g}

First(G) == CHOOSE c \in G : \A d \in G : c <= d

Fetching(k) == {r \in running : r.id = k}

\* C1: single-flight. The callers of one key that arrive before the key's first
\* fetch settles, the first of them while a slot was free: exactly one fetchFn is
\* invoked, the first caller's, and once the fetch settled every one of them has
\* settled, all with the same outcome.
C1_SingleFlight ==
    \A k \in QueueIds : \A g \in 0..MaxCallers :
        LET G == Group(k, g)
        IN  (G # {} /\ callers[First(G)].sawFree) =>
                /\ invoked \cap G = {First(G)}
                /\ \A c, d \in G : (Settled(c) /\ Settled(d)) =>
                        /\ callers[c].state = callers[d].state
                        /\ callers[c].val = callers[d].val
                /\ (gen[k] > g) => \A c \in G : Settled(c)

\* Three callers of one key were served by one fetch.
C1_Witness ==
    \E k \in QueueIds : \E g \in 0..MaxCallers :
        /\ Cardinality(Group(k, g)) >= 3
        /\ \A c \in Group(k, g) : callers[c].state = "resolved"
        /\ Cardinality(invoked \cap Group(k, g)) = 1

\* C2: for every key at most one fetchFn is executing.
C2_OneFetchPerKey == \A k \in QueueIds : Cardinality(Fetching(k)) <= 1

\* Two keys are being fetched, one of them with a waiter queued behind it.
C2_Witness ==
    /\ Cardinality(running) >= 2
    /\ \E r \in running : QueueGet(queue, r.id) # <<>>

\* C3: the number of fetchFn executing is at most concurrencyLimit.
C3_ConcurrencyBound == Cardinality(running) <= ConcurrencyLimit

\* Every slot is taken again after a completion, and a caller of another key is
\* held back.
C3_Witness ==
    /\ Cardinality(running) = ConcurrencyLimit
    /\ \E k \in QueueIds : gen[k] > 0
    /\ \E c \in Callers : ~Settled(c) /\ c \notin invoked /\ Fetching(callers[c].id) = {}

\* A caller that was queued while nothing runs for its id: enqueue found the
\* limit saturated.
Stuck(c) ==
    /\ c \in Callers
    /\ ~Settled(c)
    /\ c \notin invoked
    /\ callers[c].id \in processing
    /\ Fetching(callers[c].id) = {}

\* Such a caller stays so whatever happens next: its id is in processing, and
\* processNext skips the ids in processing.
StuckStaysStuck == [][\A c \in 1..MaxCallers : Stuck(c) => Stuck(c)']_vars

\* C4: every caller of enqueue eventually receives an outcome.
C4_EveryCallerSettles ==
    \A c \in 1..MaxCallers : (c \in Callers) ~> (c \in Callers /\ Settled(c))

\* The fetch before epoch g of key k failed.
FailedBefore(k, g) ==
    g > 0 /\ \E d \in Group(k, g - 1) : callers[d].state = "rejected"

\* C5: when the fetch of k fails, its caller and every waiter on k are rejected
\* with that error; no fetchFn of theirs is run again; and the first enqueue of
\* k after the failure has its fetchFn invoked.
C5_FailureSemantics ==
    /\ [](\A k \in QueueIds : \A g \in 0..MaxCallers :
            LET G == Group(k, g)
            IN  (gen[k] > g /\ \E d \in G : callers[d].state = "rejected") =>
                    /\ \A c, d \in G : callers[c].state = "rejected"
                                       /\ callers[c].val = callers[d].val
                    /\ Cardinality(invoked \cap G) <= 1)
    /\ \A c \in 1..MaxCallers :
            (/\ c \in Callers
             /\ FailedBefore(callers[c].id, callers[c].epoch)
             /\ c = First(Group(callers[c].id, callers[c].epoch)))
            ~> (c \in invoked)

\* C6: callers waiting on one fetch of a key are settled in the order of their
\* enqueue calls.
C6_WaitersInOrder ==
    \A k \in QueueIds : \A g \in 0..MaxCallers :
        \A a, b \in Group(k, g) :
            (a < b /\ Settled(a) /\ Settled(b)) => callers[a].pos < callers[b].pos

\* One fetch settled its caller and two waiters.
C6_Witness ==
    \E k \in QueueIds : \E g \in 0..MaxCallers :
        \E a, b, c \in Group(k, g) :
            /\ a < b /\ b < c
            /\ callers[a].pos = 1 /\ callers[b].pos = 2 /\ callers[c].pos = 3

(***************************************************************************)
(* Properties of the cache                                                 *)
(***************************************************************************)

\* Every cache action names itself in last, so a step that is not a stuttering
\* step and ends with last.op = "set" is a Set step on last.key.
SetOfNewKeyIntoFull ==
    /\ last'.op = "set"
    /\ ~MapHas(cache, last'.key)
    /\ Len(cache) >= Capacity

AllUnexpired == \A i \in 1..Len(cache) : ~IsExpired(cache[i], now)

\* C7: after any set the number of stored entries is at most capacity, for every
\* string key, the empty string included; a set of a new key into a full cache
\* removes exactly one entry and adds exactly one to evictions.
C7_CapacityInvariant ==
    [][/\ (last'.op = "set") => Len(cache') <= Capacity
       /\ SetOfNewKeyIntoFull =>
            /\ Cardinality(KeysOf(cache) \ KeysOf(cache')) = 1
            /\ stats'.evictions = stats.evictions + 1]_vars

\* C8: a set of a new key into a cache holding capacity unexpired entries evicts
\* the entry whose last successful get or set is the oldest.
C8_EvictsLeastRecentlyUsed ==
    [][(SetOfNewKeyIntoFull /\ Len(cache) = Capacity /\ AllUnexpired) =>
            KeysOf(cache) \ KeysOf(cache') = {Head(recency)}]_vars

\* The step is a get or a has of a key whose set at time t0 is still in force
\* (not overwritten, evicted or cleared since).
Probe == last'.op \in {"get", "has"} /\ live[last'.key] # None

Present ==
    IF last'.op = "get" THEN last'.ret = live[last'.key].v ELSE last'.ret = TRUE

Missing ==
    IF last'.op = "get" THEN last'.ret = Absent ELSE last'.ret = FALSE

C10_StatsInvariant ==
    LET s == GetStats
    IN  /\ s.totalRequests = s.hits + s.misses
        /\ (s.totalRequests = 0) => s.hitRate = 0
        /\ (s.totalRequests > 0) => (0 <= s.hitRate /\ s.hitRate <= 100 * 100)
        /\ s.evictions <= fullInserts

\* Hits, misses and an eviction were counted, and the hit rate is a fraction.
C10_Witness ==
    /\ GetStats.hits > 0
    /\ GetStats.misses > 0
    /\ GetStats.evictions > 0
    /\ GetStats.hitRate > 0
    /\ GetStats.hitRate < 100 * 100

\* C11: clear() empties the store (size 0, every key absent) and leaves hits,
\* misses and evictions as they were; no operation but resetStats lowers a
\* counter.
C11_ClearKeepsCounters ==
    [][/\ (last'.op = "clear") =>
            /\ Len(cache') = 0
            /\ \A k \in CacheKeys : ~MapHas(cache', k)
            /\ stats' = stats
       /\ (last'.op # "resetStats") =>
            /\ stats'.hits >= stats.hits
            /\ stats'.misses >= stats.misses
            /\ stats'.evictions >= stats.evictions]_vars

\* A clear was made after a hit, a miss and an eviction were counted.
C11_Witness ==
    /\ last.op = "clear"
    /\ Len(cache) = 0
    /\ stats.hits > 0
    /\ stats.misses > 0
    /\ stats.evictions > 0

(***************************************************************************)
(* Properties of the rate limiter                                          *)
(***************************************************************************)

\* The requests a client made at one instant, the first of which found its
\* bucket full: the first rejected one is request number n + 1.
AdmitsExactly(c, n) ==
    inst[c].full =>
        \A i \in 1..Len(inst[c].dec) : (inst[c].dec[i] = "none") <=> (i > n)

\* C12, as claimed: from a full bucket and with no time elapsing, exactly
\* maxSteady + burstCapacity consecutive requests are admitted before the first
\* rejection.
C12_AdmitsSteadyPlusBurst ==
    \A c \in Clients : AdmitsExactly(c, MaxTokens + BurstCapacity)

\* C12, amended: from a full bucket and with no time elapsing, exactly maxSteady
\* consecutive requests are admitted before the first rejection (a request
\* served from the burst pool takes a steady token too).
C12_AdmitsSteady == \A c \in Clients : AdmitsExactly(c, MaxTokens)

\* A full bucket took 12 requests at one instant, the last of them rejected.
C12_Witness ==
    /\ inst[Subject].full
    /\ Len(inst[Subject].dec) = MaxTokens + MaxRejects
    /\ inst[Subject].t = clock
    /\ rlLast.op = "request" /\ rlLast.ret = 429

\* C13: of the 12 requests a previously unseen client fires at one instant, 1-5
\* are served from the burst pool, 6-10 from the steady pool and 11-12 are
\* rejected; of the requests it fires one burst window later, exactly 5 are
\* admitted and the 6th is rejected.
C13_Scenario ==
    \A c \in Clients :
        /\ inst[c].fresh =>
              \A i \in 1..Len(inst[c].dec) :
                  inst[c].dec[i] = IF i <= BurstCapacity THEN "burst"
                                   ELSE IF i <= MaxTokens THEN "steady"
                                   ELSE "none"
        /\ inst[c].after =>
              \A i \in 1..Len(inst[c].dec) :
                  (inst[c].dec[i] # "none") <=> (i <= BurstCapacity)

\* The client fired 12 requests, waited 10 s and fired 6 more.
C13_Witness ==
    /\ inst[Subject].after
    /\ Len(inst[Subject].dec) = BurstCapacity + 1
    /\ rlLast.op = "request" /\ rlLast.ret = 429

C15_RateBound == \A c \in Clients : win[c].count <= MaxTokens + BurstCapacity

\* C16: the decision a request of client A gets depends only on the times of A's
\* own earlier requests: in a run with requests of other clients and in the run
\* without them, every request of A gets the same decision (so any two runs
\* that agree on A's request times agree on A's decisions).
C16_Isolation == verdict.main = verdict.shadow

\* A is rejected in both runs while B, served in the first run only, still has
\* tokens of both pools.
C16_Witness ==
    /\ rlLast.op = "request"
    /\ ~verdict.main /\ ~verdict.shadow
    /\ buckets["B"] # NoBucket /\ shadow["B"] = NoBucket
    /\ buckets["B"].burstTokens > 0 /\ HasToken(buckets["B"])
    /\ buckets["B"].tokens < FullTokens

\* C17: status queries of a client, inserted at any times among its requests,
\* change the decision of none of the requests.
C17_StatusReadOnly ==
    [][(rlLast'.op = "request") => (rlLast'.ret = 200 <=> verdict'.shadow)]_vars

(***************************************************************************)
(* Properties of the user service                                          *)
(***************************************************************************)

\* C18: for a user id of mockUsers, as long as its cache entry was not cleared,
\* evicted or expired, simulateDatabaseCall was called at most once for it, and
\* every getUserById call for it that returned, from the cache or from the
\* queue, returned that user.
C18_ReadPath ==
    \A u \in UserIds :
        (MockUsers[u] # NoUser /\ u \notin disrupted) =>
            /\ dbCalls[u] <= 1
            /\ \A x \in served : x[1] = u => x[2] = MockUsers[u]
            /\ \A c \in Callers :
                  (callers[c].id = UserKey(u) /\ Settled(c)) =>
                      /\ callers[c].state = "resolved"
                      /\ callers[c].val = MockUsers[u]

\* Three calls for user 1: one fetched it, one waited for that fetch, one was
\* served from the cache.
C18_Witness ==
    /\ 1 \notin disrupted
    /\ dbCalls[1] = 1
    /\ Cardinality({c \in Callers : callers[c].id = UserKey(1) /\ Settled(c)}) = 2
    /\ <<1, MockUsers[1]>> \in served

\* The ids createUser gave out.
Created == {u \in UserIds : MockUsers[u] = NoUser /\ userDatabase[u] # NoUser}

\* C19: createUser leaves the queue as it is and stores the new user in the
\* database and in the cache; a later getUserById for its id, the entry not
\* cleared, evicted or expired, returns the created user from the cache, calls
\* simulateDatabaseCall not and leaves the queue as it is.
C19_WriteThrough ==
    [][/\ (svcLast'.op = "create") =>
            /\ queueVars' = queueVars
            /\ userDatabase'[svcLast'.id] = svcLast'.ret
            /\ MapHas(cache', UserKey(svcLast'.id))
            /\ MapGet(cache', UserKey(svcLast'.id)).value = svcLast'.ret
       /\ (/\ svcLast'.op = "get"
           /\ svcLast'.id \in Created
           /\ svcLast'.id \notin disrupted') =>
            /\ svcLast'.ret = userDatabase[svcLast'.id]
            /\ dbCalls' = dbCalls
            /\ queueVars' = queueVars]_vars

\* The user created while a fetch for its id was under way is returned from the
\* cache.
C19_Witness ==
    /\ svcLast.op = "get" /\ svcLast.id \in Created
    /\ svcLast.ret = userDatabase[svcLast.id]
    /\ svcLast.id \notin disrupted
    /\ dbCalls[svcLast.id] = 1

(***************************************************************************)
(* Admission of queued keys                                                *)
(***************************************************************************)

\* C20: a completion (the step that counts a settled fetch in gen) that leaves a
\* slot free leaves no key with queued callers and no fetchFn executing for it:
\* it starts the fetchFn of one such key.
C20_AdmitsNextKey ==
    [][(gen' # gen) =>
          ~(/\ activeCount' < ConcurrencyLimit
            /\ \E k \in QueueIds :
                  /\ QueueGet(queue', k) # <<>>
                  /\ {r \in running' : r.id = k} = {})]_vars

(***************************************************************************)
(* The keys in flight                                                      *)
(***************************************************************************)

\* C21: the keys in processing are exactly the keys a started fetchFn has not
\* settled for, and getStats reports processingCount equal to activeCount.
C21_InFlightIsExecuting ==
    /\ processing = {r.id : r \in running}
    /\ QueueGetStats.processingCount = QueueGetStats.activeCount

\* The callers queued behind key k.
Waiting(k) == {QueueGet(queue, k)[i] : i \in 1..Len(QueueGet(queue, k))}

\* C22: the step in which the fetch of key k settles leaves k out of processing
\* and without queued callers, activeCount one lower, and every caller that was
\* queued behind k settled with the outcome of the fetch; it starts no fetchFn.
C22_SettleLifecycle ==
    [][\A k \in QueueIds : (gen'[k] # gen[k]) =>
          /\ k \notin processing'
          /\ QueueGet(queue', k) = <<>>
          /\ activeCount' = activeCount - 1
          /\ invoked' = invoked
          /\ \E r \in running \ running' :
                /\ r.id = k
                /\ callers'[r.task].state # "pending"
                /\ \A c \in Waiting(k) :
                      /\ callers'[c].state = callers'[r.task].state
                      /\ callers'[c].val = callers'[r.task].val]_vars

\* A fetch settled with two callers queued behind it, while the fetch of another
\* key goes on.
C22_Witness ==
    \E k \in QueueIds :
        /\ gen[k] = 1
        /\ k \notin processing
        /\ Cardinality({c \in Group(k, 0) : Settled(c)}) >= 3
        /\ activeCount = 1
        /\ running # {}

(***************************************************************************)
(* Expiry on access and expiry by the sweep                                *)
(***************************************************************************)

\* The keys whose entries satisfy test P at the time t.
KeysWhere(c, P(_, _), t) == {c[i].key : i \in {j \in 1..Len(c) : P(c[j], t)}}

\* C23: a get or a has of a stored key reports it absent exactly when a sweep at
\* that time would remove its entry; a sweep removes exactly the entries a get
\* would treat as expired, and none of these is stored after it.
C23_LazyEagerAgree ==
    [][/\ (last'.op = "get" /\ MapHas(cache, last'.key)) =>
            (last'.ret = Absent <=> last'.key \in KeysWhere(cache, IsStale, now))
       /\ (last'.op = "has" /\ MapHas(cache, last'.key)) =>
            (last'.ret = FALSE <=> last'.key \in KeysWhere(cache, IsStale, now))
       /\ (last'.op = "sweep") =>
            /\ KeysOf(cache) \ KeysOf(cache') = KeysWhere(cache, IsExpired, now)
            /\ KeysWhere(cache', IsExpired, now) = {}]_vars

\* A sweep removed an entry and kept one whose age is exactly the TTL.
C23_Witness ==
    /\ last.op = "sweep"
    /\ last.ret >= 1
    /\ \E i \in 1..Len(cache) : now - cache[i].timestamp = Ttl

\* The effect of a sweep that removes the entries of age a with a >= Ttl (AtTtl)
\* or with a > Ttl: the others stay, in their order, and the counters stay.
SweepEffect(AtTtl) ==
    LET Gone(e) == IF AtTtl THEN now - e.timestamp >= Ttl ELSE now - e.timestamp > Ttl
    IN  /\ cache' = SelectSeq(cache, LAMBDA e : ~Gone(e))
        /\ stats' = stats
        /\ recency' = SelectSeq(recency, LAMBDA k : k \in KeysOf(cache'))

C25_HasIsAProbe ==
    [][(last'.op = "has") =>
          LET k == last'.key
              g == CacheGet(cache, stats, k, now)
          IN  /\ last'.ret = (g.ret # Absent)
              /\ stats' = stats
              /\ recency' = SelectSeq(recency, LAMBDA x : x \in KeysOf(cache'))
              /\ IF MapHas(cache, k) /\ IsExpired(MapGet(cache, k), now)
                 THEN cache' = MapDelete(cache, k)
                 ELSE cache' = cache]_vars

\* has found the least recently used key of a full cache, after hits were
\* counted, and left it the first to be evicted.
C25_Witness ==
    /\ last.op = "has"
    /\ last.ret = TRUE
    /\ Len(cache) = Capacity
    /\ cache[1].key = last.key
    /\ recency[1] = last.key
    /\ stats.hits > 0

\* The entry of key k is stored and not expired.
Valid(k) == MapHas(cache, k) /\ ~IsExpired(MapGet(cache, k), now)

\* C26: a get adds one to exactly one counter: to hits when the entry is stored
\* and unexpired, and then it returns the value and makes the entry the most
\* recently used one; else to misses, and then it returns absent and the entry,
\* if there was one, is removed. No operation but get and resetStats changes hits
\* or misses, and resetStats sets both to 0: hits + misses counts the gets since
\* the last reset.
C26_GetCountsOnce ==
    [][/\ (last'.op = "get") =>
            LET k == last'.key
            IN  /\ stats'.evictions = stats.evictions
                /\ IF Valid(k)
                   THEN /\ last'.ret = MapGet(cache, k).value
                        /\ stats'.hits = stats.hits + 1
                        /\ stats'.misses = stats.misses
                        /\ cache'[Len(cache')].key = k
                        /\ MapDelete(cache', k) = MapDelete(cache, k)
                   ELSE /\ last'.ret = Absent
                        /\ stats'.hits = stats.hits
                        /\ stats'.misses = stats.misses + 1
                        /\ cache' = MapDelete(cache, k)
       /\ (last'.op \notin {"get", "resetStats"}) =>
            /\ stats'.hits = stats.hits
            /\ stats'.misses = stats.misses
       /\ (last'.op = "resetStats") =>
            /\ stats'.hits = 0
            /\ stats'.misses = 0]_vars

\* After a hit, a get of an entry that had expired counted a miss and removed it.
C26_Witness ==
    /\ last.op = "get"
    /\ last.ret = Absent
    /\ live[last.key] # None
    /\ now > live[last.key].t + Ttl
    /\ ~MapHas(cache, last.key)
    /\ stats.hits = 1
    /\ stats.misses = 1

\* C27: a set of a key that is stored leaves it as the last (most recently used)
\* entry of the map, with the value of the set and both timestamps at now; the
\* other entries stay as they were and in their order, so the size is the same,
\* and the counters stay, whether or not the cache is full.
C27_Overwrite ==
    [][(last'.op = "set" /\ MapHas(cache, last'.key)) =>
          LET k == last'.key
              e == cache'[Len(cache')]
          IN  /\ e.key = k
              /\ e.value = live'[k].v
              /\ e.timestamp = now
              /\ e.lastAccessed = now
              /\ MapDelete(cache', k) = MapDelete(cache, k)
              /\ Len(cache') = Len(cache)
              /\ stats' = stats
              /\ recency'[Len(recency')] = k]_vars

\* A set of a key that a full cache has stored, at a later time than the set of
\* its first entry: the key is the last one now, and nothing was evicted.
C27_Witness ==
    /\ last.op = "set"
    /\ last.had
    /\ now > 0
    /\ Len(cache) = Capacity
    /\ cache[Len(cache)].key = last.key
    /\ cache[Len(cache)].timestamp = now
    /\ cache[1].timestamp < now
    /\ stats.evictions = 0
    /\ fullInserts = 0

(***************************************************************************)
(* Reads and the lifetime of an entry                                      *)
(***************************************************************************)

\* A get that finds an unexpired entry writes its lastAccessed and nothing else
\* of it, and the set in force stays the same.
HitKeepsCreation ==
    (last'.op = "get" /\ Valid(last'.key)) =>
        /\ MapGet(cache', last'.key) =
              [MapGet(cache, last'.key) EXCEPT !.lastAccessed = now]
        /\ live' = live

C29_BucketBounds ==
    \A c \in Clients :
        (buckets[c] # NoBucket) =>
            /\ 0 <= buckets[c].tokens
            /\ buckets[c].tokens <= FullTokens
            /\ (buckets[c].tokens = 0) => buckets[c].dev >= 0
            /\ (buckets[c].tokens = FullTokens) => buckets[c].dev <= 0
            /\ buckets[c].burstTokens \in 0..BurstCapacity

\* After time passed twice, a request was rejected by a bucket with less than one
\* steady token and no burst token.
C29_Witness ==
    /\ rlLast.op = "request"
    /\ rlLast.ret = 429
    /\ ticks >= 2
    /\ buckets[Subject].tokens < MsPerToken
    /\ buckets[Subject].burstTokens = 0

\* The bucket of client c after the refill and the burst reset of a request or a
\* status query at the present time, the refill rounded towards d.
Refilled(c, d) ==
    RefillBurstTokens(RefillTokens(GetBucket(buckets, c, clock), clock, d), clock)

\* C30: a request is admitted exactly when, after the refill and the burst reset,
\* the bucket has a burst token or at least one steady token. Served from the
\* burst pool it costs one burst token and one steady token, the steady pool
\* stopping at 0; served from the steady pool it costs one steady token; rejected
\* it leaves both pools as the refill and the reset left them.
C30_AdmissionStep ==
    [][(rlLast'.op = "request") =>
          LET c == rlLast'.client
          IN  \E d \in Roundings(GetBucket(buckets, c, clock), clock) :
                LET b == Refilled(c, d)
                    a == buckets'[c]
                IN  /\ (rlLast'.ret = 200) <=> (b.burstTokens > 0 \/ HasToken(b))
                    /\ a.lastRefill = clock
                    /\ IF b.burstTokens > 0
                       THEN /\ a.burstTokens = b.burstTokens - 1
                            /\ a.tokens = IF b.tokens > MsPerToken
                                          THEN b.tokens - MsPerToken ELSE 0
                       ELSE IF HasToken(b)
                       THEN /\ a.burstTokens = b.burstTokens
                            /\ a.tokens = b.tokens - MsPerToken
                       ELSE a = b]_vars

\* A request was rejected by a bucket that holds a part of a steady token and no
\* burst token, and the part is still there.
C30_Witness ==
    /\ rlLast.op = "request"
    /\ rlLast.ret = 429
    /\ buckets[Subject].burstTokens = 0
    /\ buckets[Subject].tokens > 0
    /\ buckets[Subject].tokens < MsPerToken
    /\ Rejections(Subject) = 1

(***************************************************************************)
(* The status reported to a client                                         *)
(***************************************************************************)

\* What is missing of n units in the bucket the status query left, in ms of
\* refill: Math.ceil of a quotient of doubles may add 1 to it.
MsUntil(n, b) == {n - b.tokens, (n - b.tokens) + 1}

\* C31, as claimed: resetIn is the time until the steady pool has one whole
\* token, 0 when it has one already.
C31_ResetInNextToken ==
    [][(rlLast'.op = "status") =>
          LET b == buckets'[rlLast'.client]
          IN  IF HasToken(b) THEN rlLast'.ret.resetIn = 0
              ELSE rlLast'.ret.resetIn \in MsUntil(MsPerToken, b)]_vars

\* C31, amended: resetIn is the time until the steady pool is full, 0 only when
\* it is full; with a whole number of tokens held exactly it is 6000 ms for each
\* token missing.
C31_ResetInFull ==
    [][(rlLast'.op = "status") =>
          LET b == buckets'[rlLast'.client]
          IN  /\ rlLast'.ret.resetIn \in MsUntil(FullTokens, b)
              /\ (rlLast'.ret.resetIn = 0) <=> (b.tokens = FullTokens /\ b.dev = 0)
              /\ (b.dev = 0 /\ b.tokens % MsPerToken = 0) =>
                    rlLast'.ret.resetIn =
                        (MaxTokens - rlLast'.ret.remaining) * MsPerToken]_vars

\* A status query reported 5 tokens remaining and a resetIn of 30 s.
C31_Witness ==
    /\ rlLast.op = "status"
    /\ rlLast.ret.remaining = BurstCapacity
    /\ rlLast.ret.burstRemaining = 0
    /\ rlLast.ret.resetIn = (MaxTokens - BurstCapacity) * MsPerToken

(***************************************************************************)
(* Cleanup of the buckets                                                  *)
(***************************************************************************)

\* C32: a cleanup pass removes the buckets last refilled more than 5 minutes
\* ago and no other; and of two runs with the same requests at the same times,
\* one with cleanup passes and one without, every request gets the same result
\* and leaves the same bucket.
C32_CleanupTransparent ==
    [][/\ (rlLast'.op = "cleanup") =>
            \A c \in Clients :
                buckets'[c] =
                    IF buckets[c] # NoBucket
                          /\ clock - buckets[c].lastRefill > CleanupTimeout
                    THEN NoBucket ELSE buckets[c]
       /\ (rlLast'.op = "request") =>
            /\ verdict'.main = verdict'.shadow
            /\ buckets'[rlLast'.client] = shadow'[rlLast'.client]]_vars

\* A cleanup pass removed a bucket that was left without a steady and without a
\* burst token; the run without cleanup still has it.
C32_Witness ==
    /\ rlLast.op = "cleanup"
    /\ buckets[Subject] = NoBucket
    /\ shadow[Subject] # NoBucket
    /\ shadow[Subject].tokens < MsPerToken
    /\ shadow[Subject].burstTokens = 0

(***************************************************************************)
(* The order of the store                                                  *)
(***************************************************************************)

\* The entries of c, from the first key of the map to the last, have
\* non-decreasing lastAccessed.
ByAccess(c) ==
    \A i, j \in 1..Len(c) : (i < j) => c[i].lastAccessed <= c[j].lastAccessed

\* The step is a set that evicted an entry.
Eviction ==
    last'.op = "set" /\ ~last'.had /\ stats'.evictions = stats.evictions + 1

\* C33: in every state the map holds its entries in the order of their
\* lastAccessed, and the entry a set evicts has the least lastAccessed of the
\* entries stored.
C33_OrderedByAccess ==
    [][/\ ByAccess(cache')
       /\ Eviction =>
            \E k \in KeysOf(cache) :
                /\ KeysOf(cache) \ KeysOf(cache') = {k}
                /\ \A i \in 1..Len(cache) :
                      MapGet(cache, k).lastAccessed <= cache[i].lastAccessed]_vars

\* A set evicted an entry from a full cache and kept the entry first in the
\* order now, which a get had served after its set.
C33_Witness ==
    /\ last.op = "set"
    /\ ~last.had
    /\ stats.evictions = 1
    /\ Len(cache) = Capacity
    /\ cache[1].lastAccessed > cache[1].timestamp
    /\ cache[1].timestamp < now

(***************************************************************************)
(* The cache of the service and its database                               *)
(***************************************************************************)

\* C34: every entry of the service's cache is stored under the key of a user the
\* database holds and has that user as its value; no entry holds null, so a
\* lookup of an id the database does not hold leaves no entry.
C34_CacheCoherent ==
    \A i \in 1..Len(cache) :
        \E u \in UserIds :
            /\ cache[i].key = UserKey(u)
            /\ userDatabase[u] # NoUser
            /\ cache[i].value = userDatabase[u]

\* The fetch for an id the database does not hold returned null while the cache
\* holds another user: there is no entry for the id.
C34_Witness ==
    /\ svcLast.op = "return"
    /\ svcLast.ret = NoUser
    /\ userDatabase[svcLast.id] = NoUser
    /\ dbCalls[svcLast.id] = 1
    /\ ~MapHas(cache, UserKey(svcLast.id))
    /\ Len(cache) >= 1

=============================================================================
